---------------------------- MODULE Spec2Model ----------------------------
(***************************************************************************)
(* Model of the QR-code application: the QRCode model functions            *)
(* (app/models/QRCode.server: getDestinationUrl, validateQRCode,           *)
(* supplementQRCode, getQRCodes), the public scan loader                   *)
(* (app/routes/qrcodes.$id.scan.jsx) and the action of the QR code form    *)
(* route.                                                                  *)
(*                                                                         *)
(* JavaScript strings are sequences of one-character strings, so that      *)
(* template literals, the variant-id regular expression and Number() are   *)
(* computed character by character.  undefined and null are the two        *)
(* one-element sequences Undefined and Null, which no string equals.       *)
(***************************************************************************)
EXTENDS Integers, Sequences, FiniteSets

VARIABLES
    db,         \* the qRCode table: id -> row, or NoRecord
    req,        \* the scan requests in flight: request -> its loader's locals
    draft,      \* the argument handed to a model function (pure calls)
    ret,        \* what that call returned or threw
    call,       \* the enrichment call in progress (getQRCode / getQRCodes)
    task,       \* its supplementQRCode invocations, in the order of qrCodes.map
    lookups,    \* number of graphql requests issued by the enrichment call
    resp        \* what the form action answered to the last submission

vars == <<db, req, draft, ret, call, task, lookups, resp>>

---------------------------------------------------------------------------
(* Bounds *)

\* longest run of digits in the variant references and id parameters tried
MaxDigits == 2

\* number of rows the table is ever given (ids 1..MaxId)
MaxId == 1

\* number of scan requests
NumScans == 2

\* number of rows the merchants are let to create when only forms are
\* submitted
MaxRows == 2

\* number of rows stored when the index page is enriched
MaxStored == 2

---------------------------------------------------------------------------
(* JavaScript values *)

Undefined == <<"#undefined">>
Null == <<"#null">>

\* null where a row is expected (the result of findFirst), and the empty slot
\* of the table
NullRow == [null |-> TRUE]
NoRecord == [absent |-> TRUE]

Nullish(v) == v = Undefined \/ v = Null

\* !v for the values a form field or a column can hold
Falsy(v) == Nullish(v) \/ v = <<>>

UndefinedLit == <<"u", "n", "d", "e", "f", "i", "n", "e", "d">>
NullLit == <<"n", "u", "l", "l">>

\* String(v), as applied by a template literal and by RegExp.prototype.exec
JsString(v) ==
    IF v = Undefined THEN UndefinedLit
    ELSE IF v = Null THEN NullLit
    ELSE v

DigitChars == {"0", "1", "2", "3", "4", "5", "6", "7", "8", "9"}

DigitValue(c) ==
    CASE c = "0" -> 0 [] c = "1" -> 1 [] c = "2" -> 2 [] c = "3" -> 3
      [] c = "4" -> 4 [] c = "5" -> 5 [] c = "6" -> 6 [] c = "7" -> 7
      [] c = "8" -> 8 [] c = "9" -> 9

IsDigits(s) == \A i \in 1..Len(s) : s[i] \in DigitChars

\* Number() of a string that is no numeral; it is the id of no row
NaN == 0 - 1

RECURSIVE DecimalValue(_)
DecimalValue(s) ==
    IF s = <<>> THEN 0
    ELSE 10 * DecimalValue(SubSeq(s, 1, Len(s) - 1)) + DigitValue(s[Len(s)])

\* Number(s) for the route parameters tried here: the decimal value of a
\* digit string (leading zeros dropped, 0 for the empty string), NaN for
\* undefined and for a string with a character that is no digit
Number(s) ==
    IF IsDigits(s) THEN DecimalValue(s) ELSE NaN

---------------------------------------------------------------------------
(* getDestinationUrl *)

HttpsLit == <<"h", "t", "t", "p", "s", ":", "/", "/">>
ProductsLit == <<"/", "p", "r", "o", "d", "u", "c", "t", "s", "/">>
CartLit == <<"/", "c", "a", "r", "t", "/">>
QtyLit == <<":", "1">>
ProductKind == <<"p", "r", "o", "d", "u", "c", "t">>
CartKind == <<"c", "a", "r", "t">>

\* the literal part of /gid:\/\/shopify\/ProductVariant\/([0-9]+)/
VariantGidLit ==
    <<"g", "i", "d", ":", "/", "/", "s", "h", "o", "p", "i", "f", "y", "/",
      "P", "r", "o", "d", "u", "c", "t", "V", "a", "r", "i", "a", "n", "t", "/">>

\* s has the literal lit at position i
HasAt(s, lit, i) ==
    /\ i >= 1
    /\ i + Len(lit) - 1 <= Len(s)
    /\ SubSeq(s, i, i + Len(lit) - 1) = lit

\* faulty variant: ([0-9]), a single digit
DigitRunOne(s, i) ==
    IF i <= Len(s) /\ s[i] \in DigitChars THEN <<s[i]>> ELSE <<>>

\* the longest run of digits of s that starts at position i ([0-9]+ is greedy)
RECURSIVE DigitRun(_, _)
DigitRun(s, i) ==
    IF i <= Len(s) /\ s[i] \in DigitChars
    THEN <<s[i]>> \o DigitRun(s, i + 1)
    ELSE <<>>

\* faulty variant: ([0-9]*), which also matches the literal alone
MatchStartsStar(s) ==
    {i \in 1..Len(s) : HasAt(s, VariantGidLit, i)}

\* the positions where the whole expression matches: the literal, then a digit
MatchStarts(s) ==
    {i \in 1..Len(s) :
        /\ HasAt(s, VariantGidLit, i)
        /\ DigitRun(s, i + Len(VariantGidLit)) # <<>>}

Min(S) == CHOOSE x \in S : \A y \in S : x <= y

\* regex.exec(v): Null, or the capture group match[1] of the leftmost match
VariantRegexExec(v) ==
    LET s == JsString(v)
    IN  IF MatchStarts(s) = {} THEN Null
        ELSE DigitRun(s, Min(MatchStarts(s)) + Len(VariantGidLit))

Returned(v) == [kind |-> "return", value |-> v]
Thrown(msg) == [kind |-> "throw", value |-> <<msg>>]

\* redirect(url), and no answer yet
Redirect(url) == [kind |-> "redirect", value |-> url]
NoResult == [kind |-> "none"]

ProductUrl(qrCode) ==
    HttpsLit \o JsString(qrCode.shop) \o ProductsLit \o JsString(qrCode.productHandle)

CartUrl(qrCode, digits) ==
    HttpsLit \o JsString(qrCode.shop) \o CartLit \o digits \o QtyLit

\* faulty variant: the reference is matched before the kind is looked at
getDestinationUrlMatchFirst(qrCode) ==
    LET match == VariantRegexExec(qrCode.productVariantId)
    IN  IF match = Null THEN Thrown("Unrecognized product variant ID")
        ELSE IF qrCode.destination = ProductKind THEN Returned(ProductUrl(qrCode))
        ELSE Returned(CartUrl(qrCode, match))

getDestinationUrl(qrCode) ==
    IF qrCode.destination = ProductKind
    THEN Returned(ProductUrl(qrCode))
    ELSE LET match == VariantRegexExec(qrCode.productVariantId)
         IN  IF match = Null
             THEN Thrown("Unrecognized product variant ID")
             ELSE Returned(CartUrl(qrCode, match))

---------------------------------------------------------------------------
(* validateQRCode *)

\* what validateQRCode evaluates to: undefined, or the errors object, which
\* is modelled by its entries
JsUndefined == [type |-> "undefined"]
JsObject(entries) == [type |-> "object", entries |-> entries]

TitleError == <<"title", "Title is required">>
ProductIdError == <<"productId", "Product is required">>
DestinationError == <<"destination", "Destination is required">>

\* faulty variant: the checks are chained, so that only the first missing
\* field is reported
validateQRCodeFirstOnly(data) ==
    LET errors ==
            IF Falsy(data.title) THEN {TitleError}
            ELSE IF Falsy(data.productId) THEN {ProductIdError}
            ELSE IF Falsy(data.destination) THEN {DestinationError}
            ELSE {}
    IN  IF Cardinality(errors) # 0 THEN JsObject(errors) ELSE JsUndefined

validateQRCode(data) ==
    LET errors ==
            (IF Falsy(data.title) THEN {TitleError} ELSE {})
            \cup (IF Falsy(data.productId) THEN {ProductIdError} ELSE {})
            \cup (IF Falsy(data.destination) THEN {DestinationError} ELSE {})
    IN  IF Cardinality(errors) # 0 THEN JsObject(errors) ELSE JsUndefined

---------------------------------------------------------------------------
(* Calls of the pure model functions on bounded arguments *)

OtherNs == <<"g", "i", "d", ":", "/", "/", "o", "t", "h", "e", "r">>
ShopifyNs == <<"g", "i", "d", ":", "/", "/", "s", "h", "o", "p", "i", "f", "y">>
VariantSeg == <<"/", "P", "r", "o", "d", "u", "c", "t", "V", "a", "r", "i", "a", "n", "t", "/">>
ProductSeg == <<"/", "P", "r", "o", "d", "u", "c", "t", "/">>

Shops == {<<"a", ".", "i", "o">>, <<"b", ".", "i", "o">>}
Handles == {<<"m", "u", "g">>, <<"t", "-", "2">>}

\* the digit strings of length 0..MaxDigits over two digits
DigitStrings ==
    UNION {[1..n -> {"0", "4"}] : n \in 0..MaxDigits}

\* variant references: well-formed ones, and ones with a foreign namespace,
\* another resource type, no digits, leading or trailing text; also the
\* empty string and an absent reference
VariantRefs ==
    {pre \o ns \o seg \o d \o post :
        pre \in {<<>>, <<"x">>}, ns \in {ShopifyNs, OtherNs},
        seg \in {VariantSeg, ProductSeg}, d \in DigitStrings,
        post \in {<<>>, <<"a">>}}
    \cup {<<>>, Undefined, Null}

Kinds == {ProductKind, CartKind, <<"c", "h", "e", "c", "k", "o", "u", "t">>, <<>>, Undefined}
Titles == {<<"T">>, <<>>, Undefined}
ProductIds == {<<"P">>, <<>>, Undefined}

Drafts ==
    [shop : Shops, title : Titles, productId : ProductIds,
     productHandle : Handles, productVariantId : VariantRefs,
     destination : Kinds]

NotCalled == [fn |-> "none"]

InitPure ==
    /\ draft \in Drafts
    /\ ret = NotCalled
    /\ db = <<>>
    /\ req = <<>>
    /\ call = <<>>
    /\ task = <<>>
    /\ lookups = 0
    /\ resp = NoResult

CallGetDestinationUrl ==
    /\ ret = NotCalled
    /\ ret' = [fn |-> "getDestinationUrl", result |-> getDestinationUrl(draft)]
    /\ UNCHANGED <<db, req, draft, call, task, lookups, resp>>

CallValidateQRCode ==
    /\ ret = NotCalled
    /\ ret' = [fn |-> "validateQRCode", result |-> validateQRCode(draft)]
    /\ UNCHANGED <<db, req, draft, call, task, lookups, resp>>

NextPure == CallGetDestinationUrl \/ CallValidateQRCode

SpecPure == InitPure /\ [][NextPure]_vars

---------------------------------------------------------------------------
(* The qRCode table, as the routes use it through the ORM.  The table is   *)
(* the sequence of its slots by id: ids are handed out by autoincrement    *)
(* and never reused, a deleted row leaves NoRecord.                        *)

Exists(d, id) == id \in 1..Len(d) /\ d[id] # NoRecord

\* faulty variant: the where clause is lost, so the first row is found
FindFirstAny(d, id) ==
    IF \E i \in 1..Len(d) : d[i] # NoRecord
    THEN d[Min({i \in 1..Len(d) : d[i] # NoRecord})]
    ELSE NullRow

\* db.qRCode.findFirst({ where: { id } }): the row, or null
FindFirst(d, id) == IF Exists(d, id) THEN d[id] ELSE NullRow

\* db.qRCode.findMany({ where: { shop }, orderBy: { id: "desc" } })
RECURSIVE FindManyFrom(_, _, _)
FindManyFrom(d, shop, i) ==
    IF i = 0 THEN <<>>
    ELSE (IF d[i] # NoRecord /\ d[i].shop = shop THEN <<d[i]>> ELSE <<>>)
         \o FindManyFrom(d, shop, i - 1)

\* faulty variant: the where clause is dropped, rows of every shop are found
RECURSIVE FindManyAnyShopFrom(_, _)
FindManyAnyShopFrom(d, i) ==
    IF i = 0 THEN <<>>
    ELSE (IF d[i] # NoRecord THEN <<d[i]>> ELSE <<>>) \o FindManyAnyShopFrom(d, i - 1)

FindManyAnyShop(d, shop) == FindManyAnyShopFrom(d, Len(d))

FindMany(d, shop) == FindManyFrom(d, shop, Len(d))

\* the row db.qRCode.create({ data }) inserts: the columns of data, the next
\* id, and a scan counter of 0
NewRow(data, id) ==
    [id |-> id, shop |-> data.shop, title |-> data.title,
     productId |-> data.productId, productHandle |-> data.productHandle,
     productVariantId |-> data.productVariantId,
     destination |-> data.destination, scans |-> 0]

Create(d, data) == Append(d, NewRow(data, Len(d) + 1))

\* the row db.qRCode.update({ where: { id }, data }) leaves: every column of
\* data replaced, id and scans kept
UpdatedRow(row, data) ==
    [row EXCEPT !.shop = data.shop, !.title = data.title,
                !.productId = data.productId,
                !.productHandle = data.productHandle,
                !.productVariantId = data.productVariantId,
                !.destination = data.destination]

\* update and delete reject when no row has the id
RecordNotFound == Thrown("Record to update or delete not found")

---------------------------------------------------------------------------
(* The form action: create, update or delete a QR code *)

NewParam == <<"n", "e", "w">>
DeleteAction == <<"d", "e", "l", "e", "t", "e">>

DigitOf(n) == CHOOSE c \in DigitChars : DigitValue(c) = n

\* the decimal numeral of a one-digit id
Numeral(n) == <<DigitOf(n)>>

WellFormedVariant == ShopifyNs \o VariantSeg \o <<"4">>

\* { ...Object.fromEntries(formData), shop }
WithShop(fields, shop) ==
    [shop |-> shop, title |-> fields.title, productId |-> fields.productId,
     productHandle |-> fields.productHandle,
     productVariantId |-> fields.productVariantId,
     destination |-> fields.destination]

AppLit == <<"/", "a", "p", "p">>
AppQrcodesLit == <<"/", "a", "p", "p", "/", "q", "r", "c", "o", "d", "e", "s", "/">>

\* json({ errors }, { status: 422 })
UnprocessableStatus == 422
Json(errors, status) == [kind |-> "json", status |-> status, errors |-> errors]

\* faulty variant: the errors are returned without the status option
FormResponseOk(shop, param, actionField, fields, d) ==
    LET data == WithShop(fields, shop)
        id == Number(param)
    IN  IF actionField = DeleteAction
        THEN (IF Exists(d, id) THEN Redirect(AppLit) ELSE RecordNotFound)
        ELSE IF validateQRCode(data) # JsUndefined
        THEN Json(validateQRCode(data), 200)
        ELSE IF param = NewParam
        THEN Redirect(AppQrcodesLit \o Numeral(Len(d) + 1))
        ELSE IF Exists(d, id)
        THEN Redirect(AppQrcodesLit \o Numeral(id))
        ELSE RecordNotFound

\* what the action answers, the table being d when the request arrives: a
\* redirect, the errors with status 422, or the rejection of the ORM
FormResponse(shop, param, actionField, fields, d) ==
    LET data == WithShop(fields, shop)
        id == Number(param)
    IN  IF actionField = DeleteAction
        THEN (IF Exists(d, id) THEN Redirect(AppLit) ELSE RecordNotFound)
        ELSE IF validateQRCode(data) # JsUndefined
        THEN Json(validateQRCode(data), UnprocessableStatus)
        ELSE IF param = NewParam
        THEN Redirect(AppQrcodesLit \o Numeral(Len(d) + 1))
        ELSE IF Exists(d, id)
        THEN Redirect(AppQrcodesLit \o Numeral(id))
        ELSE RecordNotFound

\* action({ request, params }) for a request whose session is of `shop`;
\* fields are the entries of the form, of which "action" is actionField
FormAction(shop, param, actionField, fields) ==
    LET data == WithShop(fields, shop)
        id == Number(param)
    IN  /\ db' = IF actionField = DeleteAction
                 THEN (IF Exists(db, id) THEN [db EXCEPT ![id] = NoRecord] ELSE db)
                 ELSE IF validateQRCode(data) # JsUndefined
                 THEN db
                 ELSE IF param = NewParam
                 THEN Create(db, data)
                 ELSE IF Exists(db, id)
                 THEN [db EXCEPT ![id] = UpdatedRow(db[id], data)]
                 ELSE db
        /\ resp' = FormResponse(shop, param, actionField, fields, db)
        /\ UNCHANGED <<req, draft, ret, call, task, lookups>>

---------------------------------------------------------------------------
(* The scan loader: load the row, increment its counter, redirect *)

Requests == 1..NumScans

NotFound == Thrown("Could not find QR code destination")

\* a request: where its loader stands, its locals id and qrCode, and its
\* response; the locals are gone once the loader has returned or thrown
Idle == [pc |-> "start", id |-> NaN, qrCode |-> NullRow, result |-> NoResult]

Ended(id, result) ==
    [pc |-> "done", id |-> id, qrCode |-> NullRow, result |-> result]

\* the loader up to its first await of the table: invariant(params.id),
\* Number(params.id), findFirst and invariant(qrCode)
ScanLoad(r, param) ==
    /\ req[r].pc = "start"
    /\ \A q \in Requests : q < r => req[q].pc # "start"
    /\ LET id == Number(param)
           qrCode == IF Falsy(param) THEN NullRow ELSE FindFirst(db, id)
       IN  req' = [req EXCEPT ![r] =
                IF qrCode = NullRow
                THEN Ended(id, NotFound)
                ELSE [pc |-> "loaded", id |-> id, qrCode |-> qrCode,
                      result |-> NoResult]]
    /\ UNCHANGED <<db, draft, ret, call, task, lookups, resp>>

\* faulty variant: the counter is read from the loaded row and written back
ScanIncrementReadModifyWrite(r) ==
    /\ req[r].pc = "loaded"
    /\ IF Exists(db, req[r].id)
       THEN /\ db' = [db EXCEPT ![req[r].id].scans = req[r].qrCode.scans + 1]
            /\ req' = [req EXCEPT ![r].pc = "updated"]
       ELSE /\ db' = db
            /\ req' = [req EXCEPT ![r] = Ended(req[r].id, RecordNotFound)]
    /\ UNCHANGED <<draft, ret, call, task, lookups, resp>>

\* faulty variant: data: { scans: 1 }, the counter is set, not incremented
ScanIncrementSet(r) ==
    /\ req[r].pc = "loaded"
    /\ IF Exists(db, req[r].id)
       THEN /\ db' = [db EXCEPT ![req[r].id].scans = 1]
            /\ req' = [req EXCEPT ![r].pc = "updated"]
       ELSE /\ db' = db
            /\ req' = [req EXCEPT ![r] = Ended(req[r].id, RecordNotFound)]
    /\ UNCHANGED <<draft, ret, call, task, lookups, resp>>

\* faulty variant: the destination is resolved first, and a row that does not
\* resolve fails the request before the counter is written
ScanIncrementIfResolves(r) ==
    /\ req[r].pc = "loaded"
    /\ IF ~Exists(db, req[r].id)
       THEN /\ db' = db
            /\ req' = [req EXCEPT ![r] = Ended(req[r].id, RecordNotFound)]
       ELSE IF getDestinationUrl(req[r].qrCode).kind = "return"
       THEN /\ db' = [db EXCEPT ![req[r].id].scans = @ + 1]
            /\ req' = [req EXCEPT ![r].pc = "updated"]
       ELSE /\ db' = db
            /\ req' = [req EXCEPT ![r] =
                    Ended(req[r].id, getDestinationUrl(req[r].qrCode))]
    /\ UNCHANGED <<draft, ret, call, task, lookups, resp>>

\* db.qRCode.update({ where: { id }, data: { scans: { increment: 1 } } }):
\* one statement of the storage layer, which rejects when the row is gone
ScanIncrement(r) ==
    /\ req[r].pc = "loaded"
    /\ IF Exists(db, req[r].id)
       THEN /\ db' = [db EXCEPT ![req[r].id].scans = @ + 1]
            /\ req' = [req EXCEPT ![r].pc = "updated"]
       ELSE /\ db' = db
            /\ req' = [req EXCEPT ![r] = Ended(req[r].id, RecordNotFound)]
    /\ UNCHANGED <<draft, ret, call, task, lookups, resp>>

\* what the loader answers once the counter is written: the redirect to
\* getDestinationUrl of the row as it was loaded, or what that throws
ScanResponse(qrCode) ==
    LET url == getDestinationUrl(qrCode)
    IN  IF url.kind = "return" THEN Redirect(url.value) ELSE url

\* return redirect(getDestinationUrl(qrCode))
ScanRedirect(r) ==
    /\ req[r].pc = "updated"
    /\ req' = [req EXCEPT ![r] = Ended(req[r].id, ScanResponse(req[r].qrCode))]
    /\ UNCHANGED <<db, draft, ret, call, task, lookups, resp>>

---------------------------------------------------------------------------
(* Scans, with the merchant of one shop creating, editing and deleting     *)
(* rows in between                                                         *)

ScanShop == <<"a", ".", "i", "o">>

\* params.id of the form route: "new", or the numeral of an id
FormParams == {NewParam} \cup {Numeral(i) : i \in 1..MaxId}

\* params.id of the scan route: absent, the numeral of an id (also with a
\* leading zero), or the numeral of an id no row has
ScanParams ==
    {Undefined, <<"0">>, <<"0", "1">>} \cup {Numeral(i) : i \in 1..MaxId}

\* a delete submission carries the action field alone
DeleteFields ==
    [title |-> Undefined, productId |-> Undefined, productHandle |-> Undefined,
     productVariantId |-> Undefined, destination |-> Undefined]

\* the saves tried: a product code, a cart code whose variant reference is
\* empty, and a submission without title
SaveFields ==
    {[title |-> <<"T">>, productId |-> <<"P">>, productHandle |-> <<"m", "u", "g">>,
      productVariantId |-> WellFormedVariant, destination |-> ProductKind],
     [title |-> <<"T">>, productId |-> <<"P">>, productHandle |-> <<"m", "u", "g">>,
      productVariantId |-> <<>>, destination |-> CartKind],
     [title |-> <<>>, productId |-> <<"P">>, productHandle |-> <<"m", "u", "g">>,
      productVariantId |-> WellFormedVariant, destination |-> ProductKind]}

Init ==
    /\ db = <<>>
    /\ req = [r \in Requests |-> Idle]
    /\ draft = <<>>
    /\ ret = NotCalled
    /\ call = <<>>
    /\ task = <<>>
    /\ lookups = 0
    /\ resp = NoResult

Save ==
    \E param \in FormParams, f \in SaveFields :
        /\ param = NewParam => Len(db) < MaxId
        /\ FormAction(ScanShop, param, Undefined, f)

Delete ==
    \E param \in FormParams : FormAction(ScanShop, param, DeleteAction, DeleteFields)

Load == \E r \in Requests, param \in ScanParams : ScanLoad(r, param)

Increment == \E r \in Requests : ScanIncrement(r)

Respond == \E r \in Requests : ScanRedirect(r)

Next == Save \/ Delete \/ Load \/ Increment \/ Respond

Spec == Init /\ [][Next]_vars

---------------------------------------------------------------------------
(* Form submissions alone, by the merchants of two shops *)

AnyFormParams == {NewParam, <<"0">>} \cup {Numeral(i) : i \in 1..MaxRows}

\* the saves tried: those above, a cart code with a well-formed variant
\* reference, and a save whose destination is neither product nor cart
AnySaveFields ==
    SaveFields \cup
    {[title |-> <<"T">>, productId |-> <<"P">>, productHandle |-> <<"m", "u", "g">>,
      productVariantId |-> WellFormedVariant, destination |-> CartKind],
     [title |-> <<"T">>, productId |-> <<"P">>, productHandle |-> <<"m", "u", "g">>,
      productVariantId |-> WellFormedVariant,
      destination |-> <<"c", "h", "e", "c", "k", "o", "u", "t">>]}

SaveAs(shop) ==
    \E param \in AnyFormParams, f \in AnySaveFields :
        /\ param = NewParam => Len(db) < MaxRows
        /\ FormAction(shop, param, Undefined, f)

DeleteAs(shop) ==
    \E param \in AnyFormParams : FormAction(shop, param, DeleteAction, DeleteFields)

NextForm == \E shop \in Shops : SaveAs(shop) \/ DeleteAs(shop)

SpecForm == Init /\ [][NextForm]_vars

---------------------------------------------------------------------------
(* Properties of the form action (under SpecForm) *)

\* C4: a form request authenticated for shop S creates rows of S only, and
\* changes or deletes no row that another shop owns
C4_OwnShopOnly ==
    [][\A shop \in Shops :
        (SaveAs(shop) \/ DeleteAs(shop))
            => /\ \A id \in 1..Len(db) :
                    (Exists(db, id) /\ db'[id] # db[id]) => db[id].shop = shop
               /\ \A id \in (Len(db) + 1)..Len(db') : db'[id].shop = shop]_vars

\* the fields the form requires that the submission f leaves empty
MissingIn(f) ==
    {k \in {"title", "productId", "destination"} :
        CASE k = "title" -> Falsy(f.title)
          [] k = "productId" -> Falsy(f.productId)
          [] k = "destination" -> Falsy(f.destination)}

\* C11: a save submission (action field other than delete) that leaves a
\* required field empty is answered with the error mapping, keyed by the
\* missing fields, under status 422, and the table is left as it was: no row
\* is created, updated or deleted
C11_InvalidSaveRejected ==
    [][\A shop \in Shops, param \in AnyFormParams, f \in AnySaveFields :
        (FormAction(shop, param, Undefined, f) /\ MissingIn(f) # {})
            => /\ db' = db
               /\ resp'.kind = "json"
               /\ resp'.status = 422
               /\ resp'.errors.type = "object"
               /\ {e[1] : e \in resp'.errors.entries} = MissingIn(f)]_vars

\* an invalid save has been answered while the table holds a row that the
\* save addressed or could have addressed
C11_Witness ==
    /\ resp.kind = "json"
    /\ resp.status = 422
    /\ \E id \in 1..Len(db) : Exists(db, id)

\* C12: every stored row has destination 'product' or 'cart'
C12_DestinationKinds ==
    \A id \in 1..Len(db) :
        Exists(db, id) => db[id].destination \in {ProductKind, CartKind}

---------------------------------------------------------------------------
(* Enrichment: getQRCode, getQRCodes and supplementQRCode *)

ScanLit == <<"/", "s", "c", "a", "n">>
QrcodesLit == <<"/", "q", "r", "c", "o", "d", "e", "s", "/">>

\* getQRCodeImage(id): the data URI that encodes the path /qrcodes/{id}/scan
\* under the configured origin
getQRCodeImage(id) == [dataUrlOf |-> QrcodesLit \o Numeral(id) \o ScanLit]

\* what the remote lookup answers in data.product: null for a product that
\* is gone, or a product with its title and at most one image node
NullProduct == NullRow

Products ==
    {NullProduct,
     [title |-> <<"M", "u", "g">>, images |-> <<>>],
     [title |-> <<"M", "u", "g">>,
      images |-> <<[url |-> <<"u">>, altText |-> <<"a", "l", "t">>]>>]}

\* product?.images?.nodes[0]
FirstImage(product) ==
    IF product = NullProduct \/ Len(product.images) = 0
    THEN NullRow
    ELSE product.images[1]

\* the object supplementQRCode returns, up to its last field, image, whose
\* promise is awaited after the others are computed; what it throws when
\* getDestinationUrl throws
ViewOf(qrCode, title, image, alt) ==
    LET url == getDestinationUrl(qrCode)
    IN  IF url.kind = "throw" THEN url
        ELSE Returned(
            [id |-> qrCode.id, shop |-> qrCode.shop, title |-> qrCode.title,
             productId |-> qrCode.productId,
             productHandle |-> qrCode.productHandle,
             productVariantId |-> qrCode.productVariantId,
             destination |-> qrCode.destination, scans |-> qrCode.scans,
             productDeleted |-> Falsy(title),
             productTitle |-> title,
             productImage |-> image,
             productAlt |-> alt,
             destinationUrl |-> url.value,
             image |-> Undefined])

\* faulty variant: product.title and product.images.nodes[0] without the
\* optional chaining, which throw on a null product
ComposeViewUnchained(qrCode, product) ==
    IF product = NullProduct
    THEN Thrown("Cannot read properties of null")
    ELSE ViewOf(qrCode, product.title,
                IF FirstImage(product) = NullRow THEN Undefined ELSE FirstImage(product).url,
                IF FirstImage(product) = NullRow THEN Undefined ELSE FirstImage(product).altText)

ComposeView(qrCode, product) ==
    ViewOf(qrCode,
           IF product = NullProduct THEN Undefined ELSE product.title,
           IF FirstImage(product) = NullRow THEN Undefined ELSE FirstImage(product).url,
           IF FirstImage(product) = NullRow THEN Undefined ELSE FirstImage(product).altText)

NotStarted == [pc |-> "idle"]

\* supplementQRCode(qrCode, graphql) up to its first await: the image
\* promise is created and the graphql request is issued
StartedTask(qrCode) ==
    [qrCode |-> qrCode, pc |-> "graphql", product |-> NoResult,
     imageReady |-> FALSE, outcome |-> NoResult]

\* faulty variant: the views are collected in the order in which the
\* enrichments complete
AllInCompletionOrder(tasks, order) ==
    IF \E k \in 1..Len(tasks) : tasks[k].pc = "rejected"
    THEN tasks[CHOOSE k \in 1..Len(order) : tasks[order[k]].pc = "rejected" /\
            \A j \in 1..(k - 1) : tasks[order[j]].pc # "rejected"].outcome
    ELSE Returned([k \in 1..Len(tasks) |-> tasks[order[k]].outcome.value])

\* Promise.all over the settled enrichments: the views in the order of the
\* input array, or the reason of the first to reject; order is the order in
\* which they settled
All(tasks, order) ==
    IF \E k \in 1..Len(tasks) : tasks[k].pc = "rejected"
    THEN tasks[order[CHOOSE k \in 1..Len(order) : tasks[order[k]].pc = "rejected" /\
            \A j \in 1..(k - 1) : tasks[order[j]].pc # "rejected"]].outcome
    ELSE Returned([k \in 1..Len(tasks) |-> tasks[k].outcome.value])

\* getQRCodes(shop, graphql) up to the awaits of its enrichments
GetQRCodes(shop) ==
    /\ call.pc = "idle"
    /\ LET qrCodes == FindMany(db, shop)
       IN  IF Len(qrCodes) = 0
           THEN /\ call' = [pc |-> "done", fn |-> "getQRCodes", shop |-> shop,
                            order |-> <<>>, result |-> Returned(<<>>)]
                /\ UNCHANGED <<task, lookups, resp>>
           ELSE /\ call' = [pc |-> "running", fn |-> "getQRCodes", shop |-> shop,
                            order |-> <<>>, result |-> NoResult]
                /\ task' = [k \in 1..Len(qrCodes) |-> StartedTask(qrCodes[k])]
                /\ lookups' = lookups + Len(qrCodes)
    /\ UNCHANGED <<db, req, draft, ret, resp>>

\* getQRCode(id, graphql) up to the await of its enrichment
GetQRCode(id) ==
    /\ call.pc = "idle"
    /\ LET qrCode == FindFirst(db, id)
       IN  IF qrCode = NullRow
           THEN /\ call' = [pc |-> "done", fn |-> "getQRCode", shop |-> Undefined,
                            order |-> <<>>, result |-> Returned(NullRow)]
                /\ UNCHANGED <<task, lookups, resp>>
           ELSE /\ call' = [pc |-> "running", fn |-> "getQRCode", shop |-> Undefined,
                            order |-> <<>>, result |-> NoResult]
                /\ task' = <<StartedTask(qrCode)>>
                /\ lookups' = lookups + 1
    /\ UNCHANGED <<db, req, draft, ret, resp>>

\* await graphql(...): the response of the k-th request arrives
GraphqlResponds(k) ==
    /\ k \in 1..Len(task)
    /\ task[k].pc = "graphql"
    /\ task' = [task EXCEPT ![k].pc = "json"]
    /\ UNCHANGED <<db, req, draft, ret, call, lookups, resp>>

\* await response.json() gives the product; the fields of the view are
\* computed up to image, where the image promise is awaited
ResponseParsed(k, product) ==
    /\ k \in 1..Len(task)
    /\ task[k].pc = "json"
    /\ LET view == ComposeView(task[k].qrCode, product)
       IN  /\ task' = [task EXCEPT ![k].product = product,
                                   ![k].outcome = view,
                                   ![k].pc = IF view.kind = "throw"
                                             THEN "rejected" ELSE "image"]
           /\ call' = IF view.kind = "throw"
                      THEN [call EXCEPT !.order = Append(@, k)]
                      ELSE call
    /\ UNCHANGED <<db, req, draft, ret, lookups, resp>>

\* qrcode.toDataURL completes for the k-th code
ImageGenerated(k) ==
    /\ k \in 1..Len(task)
    /\ ~task[k].imageReady
    /\ task' = [task EXCEPT ![k].imageReady = TRUE]
    /\ UNCHANGED <<db, req, draft, ret, call, lookups, resp>>

\* image: await qrCodeImagePromise, and the enrichment returns its view
ImageAwaited(k) ==
    /\ k \in 1..Len(task)
    /\ task[k].pc = "image"
    /\ task[k].imageReady
    /\ task' = [task EXCEPT ![k].pc = "fulfilled",
                            ![k].outcome.value.image = getQRCodeImage(task[k].qrCode.id)]
    /\ call' = [call EXCEPT !.order = Append(@, k)]
    /\ UNCHANGED <<db, req, draft, ret, lookups, resp>>

\* the promise of the call settles: when one enrichment has rejected, or
\* when all are fulfilled
Settle ==
    /\ call.pc = "running"
    /\ \/ \E k \in 1..Len(task) : task[k].pc = "rejected"
       \/ \A k \in 1..Len(task) : task[k].pc = "fulfilled"
    /\ call' = [call EXCEPT !.pc = "done",
                            !.result = IF call.fn = "getQRCodes"
                                       THEN All(task, call.order)
                                       ELSE task[1].outcome]
    /\ UNCHANGED <<db, req, draft, ret, task, lookups, resp>>

\* the rows a table can hold: of either shop, a product code or a cart code
\* whose variant reference is empty
StoredRows(id) ==
    {NewRow(WithShop(f, shop), id) :
        shop \in Shops, f \in {g \in SaveFields : ~Falsy(g.title)}}

\* the tables of at most MaxStored slots, a slot being a row or deleted
StoredTables ==
    UNION {{t \in [1..n -> UNION {StoredRows(i) : i \in 1..n} \cup {NoRecord}] :
                \A i \in 1..n : t[i] = NoRecord \/ t[i].id = i} :
           n \in 0..MaxStored}

InitEnrich ==
    /\ db \in StoredTables
    /\ req = [r \in Requests |-> Idle]
    /\ draft = <<>>
    /\ ret = NotCalled
    /\ call = NotStarted
    /\ task = <<>>
    /\ lookups = 0
    /\ resp = NoResult

Enrich ==
    \E k \in 1..MaxStored :
        \/ GraphqlResponds(k)
        \/ \E product \in Products : ResponseParsed(k, product)
        \/ ImageGenerated(k)
        \/ ImageAwaited(k)

NextEnrich ==
    \/ \E shop \in Shops : GetQRCodes(shop)
    \/ \E id \in 1..MaxStored : GetQRCode(id)
    \/ Enrich
    \/ Settle

SpecEnrich == InitEnrich /\ [][NextEnrich]_vars

---------------------------------------------------------------------------
(* Properties of the enrichment (under SpecEnrich) *)

\* the loaded row resolves: it is of kind product, or its variant reference
\* matches the regular expression
Resolves(qrCode) ==
    \/ qrCode.destination = ProductKind
    \/ VariantRegexExec(qrCode.productVariantId) # Null

\* the enrichment of a row whose product is gone has not thrown, and its
\* view carries the deleted flag and no product title, image or alt text
DegradesToDeleted(t) ==
    /\ t.pc # "rejected"
    /\ t.outcome.kind = "return"
    /\ t.outcome.value.productDeleted = TRUE
    /\ Nullish(t.outcome.value.productTitle)
    /\ Nullish(t.outcome.value.productImage)
    /\ Nullish(t.outcome.value.productAlt)

\* C9 as stated: for every stored row, when the remote lookup returns no
\* product, supplementQRCode raises no error and yields a view with the
\* deleted flag true and null product title, image and alt text
C9_AnyRowDegrades ==
    \A k \in 1..Len(task) :
        task[k].product = NullProduct => DegradesToDeleted(task[k])

\* C9 amended: the same, for every stored row that resolves (kind product,
\* or a variant reference matching gid://shopify/ProductVariant/<digits>);
\* for a row that does not, supplementQRCode throws the error of
\* getDestinationUrl whatever the lookup returned
C9_ResolvableRowDegrades ==
    \A k \in 1..Len(task) :
        /\ (task[k].product = NullProduct /\ Resolves(task[k].qrCode))
            => DegradesToDeleted(task[k])
        /\ (task[k].product # NoResult /\ ~Resolves(task[k].qrCode))
            => /\ task[k].pc = "rejected"
               /\ task[k].outcome = Thrown("Unrecognized product variant ID")

\* the enrichment of a row whose product is gone has returned its view
C9_Witness ==
    \E k \in 1..Len(task) :
        /\ task[k].product = NullProduct
        /\ task[k].pc = "fulfilled"
        /\ task[k].outcome.value.productDeleted

\* the ids of the rows of a shop
IdsOf(shop) == {i \in 1..Len(db) : Exists(db, i) /\ db[i].shop = shop}

\* v is an enriched view of row
IsViewOf(v, row) ==
    /\ v.id = row.id /\ v.shop = row.shop /\ v.title = row.title
    /\ v.productId = row.productId /\ v.productHandle = row.productHandle
    /\ v.productVariantId = row.productVariantId
    /\ v.destination = row.destination /\ v.scans = row.scans
    /\ v.destinationUrl = getDestinationUrl(row).value
    /\ v.image = getQRCodeImage(row.id)

\* list holds one view for each row of the shop and for no other row, by
\* descending id
IsListingOf(list, shop) ==
    /\ {list[k].id : k \in 1..Len(list)} = IdsOf(shop)
    /\ \A k \in 1..Len(list) : IsViewOf(list[k], db[list[k].id])
    /\ \A j, k \in 1..Len(list) : j < k => list[j].id > list[k].id

Listed == call.pc = "done" /\ call.fn = "getQRCodes"

\* C10 as stated: getQRCodes returns the enriched views of exactly the rows
\* of the given shop, by descending id, in whatever order the lookups and
\* image generations complete
C10_AlwaysLists ==
    Listed =>
        /\ call.result.kind = "return"
        /\ IsListingOf(call.result.value, call.shop)

\* C10 amended: when every row of the given shop resolves, getQRCodes returns
\* the enriched views of exactly the rows of that shop, by descending id, in
\* whatever order the lookups and image generations complete; when a row of
\* the shop does not resolve, getQRCodes throws and returns no list
C10_ListsResolvableShop ==
    Listed =>
        IF \A i \in IdsOf(call.shop) : Resolves(db[i])
        THEN /\ call.result.kind = "return"
             /\ IsListingOf(call.result.value, call.shop)
        ELSE call.result = Thrown("Unrecognized product variant ID")

\* two rows were listed whose enrichments completed in ascending id order,
\* the reverse of the order of the list
C10_Witness ==
    /\ Listed
    /\ call.result.kind = "return"
    /\ Len(call.result.value) = 2
    /\ call.order = <<2, 1>>

\* C13: getQRCodes for a shop that has no row returns the empty list, and
\* no graphql request is issued and no enrichment (hence no image
\* generation) is started for it
C13_EmptyShopNoLookup ==
    (Listed /\ IdsOf(call.shop) = {}) =>
        /\ call.result = Returned(<<>>)
        /\ lookups = 0
        /\ task = <<>>

\* getQRCodes has returned for a shop without rows while the table holds
\* rows of the other shop
C13_Witness ==
    /\ Listed
    /\ IdsOf(call.shop) = {}
    /\ \E i \in 1..Len(db) : Exists(db, i)
    /\ call.result = Returned(<<>>)

---------------------------------------------------------------------------
(* Properties of the scan loader (under Spec) *)

\* request r takes a step of its loader
Steps(r) == req'[r] # req[r]

\* the table with the counter of row id one higher and nothing else changed
Incremented(d, id) == [d EXCEPT ![id].scans = d[id].scans + 1]

\* the load step of a request whose id matches a row keeps that row
LoadKeepsRow(r) ==
    (req[r].pc = "start" /\ Steps(r) /\ Exists(db, req'[r].id))
        => /\ req'[r].pc = "loaded"
           /\ req'[r].qrCode = db[req'[r].id]
           /\ db' = db

\* C1 as stated: every scan request whose id matches an existing row
\* increments that row's counter by exactly 1 and responds with a redirect
\* to getDestinationUrl of the row
C1_AlwaysRedirects ==
    [][\A r \in Requests :
        /\ LoadKeepsRow(r)
        /\ (req[r].pc = "loaded" /\ Steps(r))
            => /\ req'[r].pc = "updated"
               /\ db' = Incremented(db, req[r].id)
        /\ (req[r].pc = "updated" /\ Steps(r))
            => /\ req'[r].result.kind = "redirect"
               /\ req'[r].result.value = getDestinationUrl(req[r].qrCode).value
               /\ db' = db]_vars

\* C1 amended: a scan request whose id matches an existing row that is still
\* stored when the counter is written increments that row's counter by
\* exactly 1 (it fails, the table untouched, when the row was deleted in
\* between); it then responds with a redirect to getDestinationUrl of the
\* row as loaded when that row resolves, and with the error of
\* getDestinationUrl, the counter staying incremented, when it does not
C1_ScanIncrementsThenResolves ==
    [][\A r \in Requests :
        /\ LoadKeepsRow(r)
        /\ (req[r].pc = "loaded" /\ Steps(r))
            => IF Exists(db, req[r].id)
               THEN /\ req'[r].pc = "updated"
                    /\ db' = Incremented(db, req[r].id)
               ELSE /\ req'[r].pc = "done"
                    /\ req'[r].result.kind = "throw"
                    /\ db' = db
        /\ (req[r].pc = "updated" /\ Steps(r))
            => /\ req'[r].pc = "done"
               /\ db' = db
               /\ IF Resolves(req[r].qrCode)
                  THEN /\ req'[r].result.kind = "redirect"
                       /\ req'[r].result.value = getDestinationUrl(req[r].qrCode).value
                  ELSE req'[r].result = Thrown("Unrecognized product variant ID")]_vars

\* a scan of a stored row has been answered with a redirect, and the row's
\* counter stands above 0
C1_Witness ==
    \E r \in Requests :
        /\ req[r].pc = "done"
        /\ req[r].result.kind = "redirect"
        /\ Exists(db, req[r].id)
        /\ db[req[r].id].scans >= 1

\* the requests whose loader found row id
ScansOf(id) ==
    {r \in Requests : req[r].id = id /\ req[r].pc # "start" /\ req[r].result # NotFound}

\* C2: when the N scan requests that found a row have all been processed,
\* in any interleaving of their load, increment and redirect steps, the
\* row's counter stands exactly N above the 0 it was created with; no
\* increment is lost.  (Edits of the row are allowed in between: they keep
\* the counter.  A deleted row is gone for good, ids are not reused.)
C2_NoLostIncrement ==
    \A id \in 1..Len(db) :
        (/\ Exists(db, id)
         /\ \A r \in ScansOf(id) : req[r].pc = "done")
            => db[id].scans = Cardinality(ScansOf(id))

\* every request has scanned row 1 and has been answered
C2_Witness ==
    /\ Exists(db, 1)
    /\ \A r \in Requests : req[r].pc = "done" /\ req[r].id = 1
    /\ db[1].scans = NumScans

\* C3: a scan request with a missing id, or with an id that matches no stored
\* row, fails with the not-found error in its first step, issues no redirect
\* and leaves the table, every counter included, as it was
C3_NotFound ==
    [][\A r \in Requests :
        (req[r].pc = "start" /\ Steps(r) /\ ~Exists(db, req'[r].id))
            => /\ req'[r].pc = "done"
               /\ req'[r].result = NotFound
               /\ db' = db]_vars

\* a scan of an id without row has failed while row 1 is stored
C3_Witness ==
    \E r \in Requests :
        /\ req[r].pc = "done"
        /\ req[r].result = NotFound
        /\ req[r].id # NaN
        /\ Exists(db, 1)

\* the requests for row id that were answered with a redirect, those that
\* failed because the row's variant reference is malformed, and those whose
\* counter write is done and whose answer is still to come
RedirectsOf(id) ==
    {r \in Requests : req[r].id = id /\ req[r].result.kind = "redirect"}

MalformedOf(id) ==
    {r \in Requests : /\ req[r].id = id
                      /\ req[r].result = Thrown("Unrecognized product variant ID")}

WrittenOf(id) == {r \in Requests : req[r].id = id /\ req[r].pc = "updated"}

\* C14 as stated: a scan that ends in an error leaves the counter as it was,
\* so when the scans of a stored row have all been answered its counter is
\* the number of redirects issued for it
C14_CounterEqualsRedirects ==
    \A id \in 1..Len(db) :
        (Exists(db, id) /\ WrittenOf(id) = {} /\ \A r \in ScansOf(id) : req[r].pc = "done")
            => db[id].scans = Cardinality(RedirectsOf(id))

\* C14 amended: a scan that ends in a not-found error leaves every counter
\* as it was, but a scan of a stored cart row whose variant reference is
\* malformed fails after its increment; at any time the counter of a stored
\* row is the number of redirects issued for it, plus the number of its
\* scans that failed with the malformed-reference error, plus the number of
\* its scans whose increment is written and whose answer is still to come
C14_CounterCountsFailedResolutions ==
    \A id \in 1..Len(db) :
        Exists(db, id) =>
            db[id].scans = Cardinality(RedirectsOf(id)) + Cardinality(MalformedOf(id))
                           + Cardinality(WrittenOf(id))

\* row 1 was scanned twice, once answered with a redirect and once, after an
\* edit, failed on its malformed variant reference; both scans were counted
C14_Witness ==
    /\ Exists(db, 1)
    /\ RedirectsOf(1) # {}
    /\ MalformedOf(1) # {}
    /\ db[1].scans = 2

---------------------------------------------------------------------------
(* Properties of getDestinationUrl and validateQRCode (under SpecPure) *)

Resolved == ret.fn = "getDestinationUrl"
Validated == ret.fn = "validateQRCode"

\* C5: for a record of kind 'product' getDestinationUrl returns exactly
\* https://{shop}/products/{productHandle}, whatever its variant reference is
C5_ProductUrl ==
    (Resolved /\ draft.destination = ProductKind)
        => ret.result =
            Returned(HttpsLit \o draft.shop \o ProductsLit \o draft.productHandle)

\* a product record whose variant reference the regular expression rejects
\* has been resolved
C5_Witness ==
    /\ Resolved
    /\ draft.destination = ProductKind
    /\ draft.productVariantId = Undefined
    /\ ret.result.kind = "return"

\* s ends in /ProductVariant/<digits>: some namespace, the segment, then
\* a non-empty run of digits up to the end of s
SegmentStarts(s) ==
    {i \in 1..Len(s) :
        /\ HasAt(s, VariantSeg, i)
        /\ i + Len(VariantSeg) <= Len(s)
        /\ IsDigits(SubSeq(s, i + Len(VariantSeg), Len(s)))}

HasVariantForm(v) == ~Nullish(v) /\ SegmentStarts(v) # {}

TrailingId(v) ==
    LET i == Min(SegmentStarts(v))
    IN  SubSeq(v, i + Len(VariantSeg), Len(v))

CartUrlOf(d) == Returned(HttpsLit \o draft.shop \o CartLit \o d \o QtyLit)

\* C6 as stated: for a record of kind 'cart' whose variant reference has
\* the form <namespace>/ProductVariant/<digits D>, with any namespace,
\* getDestinationUrl returns exactly https://{shop}/cart/{D}:1
C6_AnyNamespace ==
    (Resolved /\ draft.destination = CartKind /\ HasVariantForm(draft.productVariantId))
        => ret.result = CartUrlOf(TrailingId(draft.productVariantId))

\* C6 amended: for a record of kind 'cart' whose variant reference is
\* gid://shopify/ProductVariant/<digits D>, getDestinationUrl returns
\* exactly https://{shop}/cart/{D}:1, D being all the trailing digits
C6_CartUrl ==
    (/\ Resolved
     /\ draft.destination = CartKind
     /\ HasVariantForm(draft.productVariantId)
     /\ Min(SegmentStarts(draft.productVariantId)) = Len(ShopifyNs) + 1
     /\ SubSeq(draft.productVariantId, 1, Len(ShopifyNs)) = ShopifyNs)
        => ret.result = CartUrlOf(TrailingId(draft.productVariantId))

\* a cart record with a two-digit shopify variant id has been resolved
C6_Witness ==
    /\ Resolved
    /\ draft.destination = CartKind
    /\ draft.productVariantId = ShopifyNs \o VariantSeg \o <<"4", "0">>
    /\ ret.result.kind = "return"

\* v contains /ProductVariant/<digit> somewhere
ContainsVariantPattern(v) ==
    /\ ~Nullish(v)
    /\ \E i \in 1..Len(v) :
            /\ HasAt(v, VariantSeg, i)
            /\ i + Len(VariantSeg) <= Len(v)
            /\ v[i + Len(VariantSeg)] \in DigitChars

\* C7: for a record of kind 'cart' whose variant reference does not contain
\* .../ProductVariant/<digits> (an empty or absent reference included),
\* getDestinationUrl throws and returns no URL
C7_MalformedFails ==
    (/\ Resolved
     /\ draft.destination = CartKind
     /\ ~ContainsVariantPattern(draft.productVariantId))
        => ret.result = Thrown("Unrecognized product variant ID")

\* a cart record whose reference stops after gid://shopify/ProductVariant/
\* has been resolved
C7_Witness ==
    /\ Resolved
    /\ draft.destination = CartKind
    /\ draft.productVariantId = ShopifyNs \o VariantSeg
    /\ ret.result.kind = "throw"

Missing(field) ==
    CASE field = "title" -> Falsy(draft.title)
      [] field = "productId" -> Falsy(draft.productId)
      [] field = "destination" -> Falsy(draft.destination)

\* C8: validateQRCode returns no errors iff title, product reference and
\* destination kind are all non-empty; otherwise the mapping has exactly one
\* entry for each missing field of the three, and no other entry
C8_Validate ==
    Validated =>
        LET missing == {f \in {"title", "productId", "destination"} : Missing(f)}
        IN  /\ (ret.result = JsUndefined) <=> (missing = {})
            /\ missing # {} =>
                /\ ret.result.type = "object"
                /\ {e[1] : e \in ret.result.entries} = missing
                /\ Cardinality(ret.result.entries) = Cardinality(missing)

\* a draft without title and destination but with a product has been
\* validated, and two errors came back
C8_Witness ==
    /\ Validated
    /\ draft.title = <<>>
    /\ draft.destination = Undefined
    /\ ~Falsy(draft.productId)
    /\ Cardinality(ret.result.entries) = 2

=============================================================================
